---- MODULE Spec2Model ----
(***************************************************************************)
(* Model of the Local Time Notifier plugin (src/main.ts): one plugin       *)
(* instance with its timer handle and pending time, the runtime's timer    *)
(* table, the localStorage item 'obsidian-time-notifier' and the history   *)
(* of notifications shown, and the settings object with its data file.     *)
(*                                                                         *)
(* Time is counted in ticks of MsPerTick milliseconds.  A JavaScript       *)
(* number is <<v>> (finite) or <<>> (NaN); a Date is a record holding its  *)
(* time value; a string of decimal digits stands for an ISO-8601 text.     *)
(***************************************************************************)
EXTENDS Integers, Sequences, FiniteSets, TLC

\* ---------------------------------------------------------------- bounds
MaxTime == 3
MaxTimers == 2
MaxLoads == 2

Messages == {"a", "b"}
OldMessage == "old"

\* ------------------------------------------------- JavaScript values
null == [type |-> "null"]
NaN == <<>>
Num(v) == <<v>>
isNaN(x) == x = NaN

Date(t) == [type |-> "Date", time |-> Num(t)]
InvalidDate == [type |-> "Date", time |-> NaN]
getTime(d) == d.time

\* mutant: the guard written delay < 0
LeqZero_Strict(a) == a # <<>> /\ a[1] < 0

\* a - b on numbers: NaN when either operand is NaN
Minus(a, b) == IF isNaN(a) \/ isNaN(b) THEN NaN ELSE Num(a[1] - b[1])
\* a <= 0 and a > b on numbers: every comparison with NaN is false
LeqZero(a) == ~isNaN(a) /\ a[1] <= 0

Greater(a, b) == ~isNaN(a) /\ ~isNaN(b) /\ a[1] > b[1]

\* Date.prototype.toISOString: the text of a valid time value; "RangeError"
\* for an invalid date (the caller propagates the exception)
RECURSIVE Digits(_)
Digits(n) == IF n < 10 THEN <<n>> ELSE Digits(n \div 10) \o <<n % 10>>
toISOString(d) == IF isNaN(d.time) THEN "RangeError" ELSE Digits(d.time[1])

\* new Date(text): the time value the text denotes, Invalid Date otherwise
RECURSIVE Value(_)
Value(str) == IF Len(str) = 1 THEN str[1]
              ELSE 10 * Value(SubSeq(str, 1, Len(str) - 1)) + str[Len(str)]
WellFormed(str) == /\ Len(str) >= 1
                   /\ \A i \in 1..Len(str) : str[i] \in 0..9
                   /\ (Len(str) > 1 => str[1] # 0)
NewDate(str) == IF WellFormed(str) THEN Date(Value(str)) ELSE InvalidDate

\* ------------------------------------------------ localStorage item
\* getItem gives null when the key is absent, the stored text otherwise
NoItem == [kind |-> "none"]
Garbage == [kind |-> "text", parses |-> FALSE]
JSONstringify(data) == [kind |-> "text", parses |-> TRUE, data |-> data]

\* ------------------------------------------------------ program state
VARIABLES
  now,                   \* the wall clock, in ticks
  loaded,                \* a plugin instance is loaded (onload ran, onunload did not)
  inst,                  \* which instance it is (the number of onload calls so far)
  timer,                 \* this.timer: a timer id, or NoTimer for null
  nextNotificationTime,  \* this.nextNotificationTime: a Date, or null
  timers,                \* the runtime's timers, by id, with what became of each
  storage,               \* localStorage item 'obsidian-time-notifier'
  shown,                 \* the notifications shown so far, in order
  notice,                \* the Notice the last handler raised ("" for none)
  threw,                 \* the last handler ended with an uncaught exception
  settings,              \* this.settings: a settings object (undefined before onload)
  dataFile,              \* the plugin's data file: null, or the object saved in it
  last                   \* history: the handler that ran last, for onload the
                         \* item that was in storage when it ran, and for
                         \* display the text it showed

vars == <<now, loaded, inst, timer, nextNotificationTime, timers, storage,
          shown, notice, threw, settings, dataFile, last>>

\* the program state as one value, so that a handler is a function of it
State == [now |-> now, loaded |-> loaded, inst |-> inst, timer |-> timer,
          nextNotificationTime |-> nextNotificationTime, timers |-> timers,
          storage |-> storage, shown |-> shown, notice |-> notice,
          threw |-> threw, settings |-> settings,
          dataFile |-> dataFile]

Becomes(s) == /\ now' = s.now
              /\ loaded' = s.loaded
              /\ inst' = s.inst
              /\ timer' = s.timer
              /\ nextNotificationTime' = s.nextNotificationTime
              /\ timers' = s.timers
              /\ storage' = s.storage
              /\ shown' = s.shown
              /\ notice' = s.notice
              /\ threw' = s.threw
              /\ settings' = s.settings
              /\ dataFile' = s.dataFile

\* private timer: NodeJS.Timeout | null = null
NoTimer == 0

\* ------------------------------------------------- the timer primitive
\* The delay is a number of milliseconds; the primitive keeps it in a signed
\* 32-bit integer.
MsPerTick == 2^30
TIMEOUT_MAX == 2147483647
MaxDelayTicks == TIMEOUT_MAX \div MsPerTick

\* Node: a delay that is NaN, below 1 or above TIMEOUT_MAX becomes 1 ms
NodeDelay(delay) ==
  IF isNaN(delay) \/ delay[1] < 1 \/ delay[1] > MaxDelayTicks THEN 0 ELSE delay[1]
\* DOM: the delay is converted to a signed 32-bit integer (NaN to 0, the rest
\* modulo 2^32), and a negative result is clamped to 0
DomDelay(delay) ==
  IF isNaN(delay) THEN 0
  ELSE LET w == delay[1] % (2 * (MaxDelayTicks + 1))
       IN IF w > MaxDelayTicks THEN 0 ELSE w
\* the waits the runtimes give a requested delay
TimerDelays(delay) == {NodeDelay(delay), DomDelay(delay)}

Armed(s) == {i \in 1..Len(s.timers) : s.timers[i].state = "armed"}

\* setTimeout(callback, delay): a new armed timer; its id is the next index.
\* dateTime and req (the schedule call the reminder comes from, 0 for a record
\* that was in storage before the first load) are history.
setTimeout(s, callback, message, delay, dateTime, req) ==
  [s EXCEPT !.timers = Append(@,
     [callback |-> callback, message |-> message, delay |-> delay,
      armedAt |-> s.now, inst |-> s.inst, state |-> "armed",
      dateTime |-> dateTime, req |-> req, by |-> "", cut |-> 0])]

\* A timer that fired or was cleared leaves the runtime's table.  What is kept of
\* it is history: how it ended (state, and by which handler it was cleared), the
\* reminder it was for (req), how many notifications had been shown by then and,
\* for a timer cleared by onunload, the time and message it was armed with.
Ended(s, id, state, by) ==
  [callback |-> s.timers[id].callback,
   message |-> IF by = "unload" THEN s.timers[id].message ELSE "",
   delay |-> NaN, armedAt |-> 0, inst |-> 0, state |-> state,
   dateTime |-> IF by = "unload" THEN s.timers[id].dateTime ELSE null,
   req |-> s.timers[id].req, by |-> by, cut |-> Len(s.shown)]

\* clearTimeout(handle): disarms the timer if it is still armed; a handle of a
\* timer that fired or was cleared changes nothing
clearTimeout(s, id, by) ==
  IF id \in Armed(s)
  THEN [s EXCEPT !.timers[id] = Ended(s, id, "cleared", by)]
  ELSE s

\* ------------------------------------------------------- localStorage
\* mutant: JSON.parse outside any try: the SyntaxError propagates
JSONparse_Uncaught(s) == [s EXCEPT !.threw = TRUE]

\* JSON.parse(saved) fails on a text that is no JSON; restore's catch logs the
\* error and returns
JSONparse_Caught(s) == s

setItem(s, text) == [s EXCEPT !.storage = text]
removeItem(s) == [s EXCEPT !.storage = NoItem]

\* mutant: the two dates of the record swapped
saveToLocalStorage_DatesSwapped(s, dateTime, message, req) ==
  IF toISOString(dateTime) = "RangeError"
  THEN [s EXCEPT !.threw = TRUE]
  ELSE setItem(s, JSONstringify(
         [dateTime |-> toISOString(Date(s.now)), message |-> message,
          scheduledAt |-> toISOString(dateTime), req |-> req]))

\* saveToLocalStorage: toISOString throws for an invalid date, before setItem
saveToLocalStorage(s, dateTime, message, req) ==
  IF toISOString(dateTime) = "RangeError"
  THEN [s EXCEPT !.threw = TRUE]
  ELSE setItem(s, JSONstringify(
         [dateTime |-> toISOString(dateTime), message |-> message,
          scheduledAt |-> toISOString(Date(s.now)), req |-> req]))

\* showNotification: the Notice (and the OS notification) with the message
showNotification(s, id, message) ==
  [s EXCEPT !.shown = Append(@,
     [timer |-> id, req |-> s.timers[id].req, message |-> message])]

\* ------------------------------------------------------------ settings
undefined == [type |-> "undefined"]

DEFAULT_SETTINGS ==
  [notificationTime |-> "12:00", notificationMessage |-> "default", enabled |-> TRUE]

\* Object.assign({}, target, source): the fields of source over those of target;
\* a null source gives nothing
ObjectAssign(target, source) ==
  IF source = null THEN target
  ELSE [f \in DOMAIN target \cup DOMAIN source |->
          IF f \in DOMAIN source THEN source[f] ELSE target[f]]

\* loadData() gives what saveData() stored in the data file, or null
loadSettings(s) == [s EXCEPT !.settings = ObjectAssign(DEFAULT_SETTINGS, s.dataFile)]
saveSettings(s) == [s EXCEPT !.dataFile = s.settings]

\* the onChange handler of the 'enabled' toggle of the settings tab
onChange(s, value) == saveSettings([s EXCEPT !.settings.enabled = value])

\* --------------------------------------------------------- the handlers
\* history: a timer cleared by scheduleNotification is marked with whether the
\* call that replaced it had a valid time
Replacing(dateTime) ==
  IF isNaN(getTime(dateTime)) THEN "schedule, invalid time" ELSE "schedule"

\* mutant: nothing is scheduled while the 'enabled' setting is off
scheduleNotification_IfEnabled(s, dateTime, message) ==
  LET delay == Minus(getTime(dateTime), getTime(Date(s.now)))
  IN IF ~s.settings.enabled THEN s
     ELSE IF LeqZero(delay)
     THEN [s EXCEPT !.notice = "choose a future time"]
     ELSE LET s1 == [s EXCEPT !.nextNotificationTime = dateTime]
              s2 == IF s1.timer # NoTimer
                    THEN clearTimeout(s1, s1.timer, Replacing(dateTime)) ELSE s1
              id == Len(s2.timers) + 1
              s3 == [setTimeout(s2, "schedule", message, delay, dateTime, id)
                       EXCEPT !.timer = id]
              s4 == saveToLocalStorage(s3, dateTime, message, id)
          IN IF s4.threw THEN s4 ELSE [s4 EXCEPT !.notice = "set"]

\* mutant: the record is not written
scheduleNotification_NoSave(s, dateTime, message) ==
  LET delay == Minus(getTime(dateTime), getTime(Date(s.now)))
  IN IF LeqZero(delay)
     THEN [s EXCEPT !.notice = "choose a future time"]
     ELSE LET s1 == [s EXCEPT !.nextNotificationTime = dateTime]
              s2 == IF s1.timer # NoTimer
                    THEN clearTimeout(s1, s1.timer, Replacing(dateTime)) ELSE s1
              id == Len(s2.timers) + 1
              s3 == [setTimeout(s2, "schedule", message, delay, dateTime, id)
                       EXCEPT !.timer = id]
          IN [s3 EXCEPT !.notice = "set"]

\* mutant: the previous timer is not cleared
scheduleNotification_NoClear(s, dateTime, message) ==
  LET delay == Minus(getTime(dateTime), getTime(Date(s.now)))
  IN IF LeqZero(delay)
     THEN [s EXCEPT !.notice = "choose a future time"]
     ELSE LET s1 == [s EXCEPT !.nextNotificationTime = dateTime]
              id == Len(s1.timers) + 1
              s3 == [setTimeout(s1, "schedule", message, delay, dateTime, id)
                       EXCEPT !.timer = id]
              s4 == saveToLocalStorage(s3, dateTime, message, id)
          IN IF s4.threw THEN s4 ELSE [s4 EXCEPT !.notice = "set"]

scheduleNotification(s, dateTime, message) ==
  LET delay == Minus(getTime(dateTime), getTime(Date(s.now)))
  IN IF LeqZero(delay)
     THEN [s EXCEPT !.notice = "choose a future time"]
     ELSE LET s1 == [s EXCEPT !.nextNotificationTime = dateTime]
              s2 == IF s1.timer # NoTimer
                    THEN clearTimeout(s1, s1.timer, Replacing(dateTime)) ELSE s1
              id == Len(s2.timers) + 1
              s3 == [setTimeout(s2, "schedule", message, delay, dateTime, id)
                       EXCEPT !.timer = id]
              s4 == saveToLocalStorage(s3, dateTime, message, id)
          IN IF s4.threw THEN s4 ELSE [s4 EXCEPT !.notice = "set"]

\* mutant: the callback does not reset nextNotificationTime
timerCallback_KeepsPending(s, id) ==
  LET t == s.timers[id]
      s1 == [showNotification(s, id, t.message)
               EXCEPT !.timers[id] = Ended(s, id, "fired", "")]
  IN IF t.callback = "restore" THEN removeItem(s1) ELSE s1

\* mutant: both callbacks remove the persisted record
timerCallback_AlwaysCleans(s, id) ==
  LET t == s.timers[id]
      s1 == [showNotification(s, id, t.message)
               EXCEPT !.timers[id] = Ended(s, id, "fired", "")]
      s2 == IF t.inst = s.inst
            THEN [s1 EXCEPT !.nextNotificationTime = null] ELSE s1
  IN removeItem(s2)

\* mutant: the callback shows nothing
timerCallback_Silent(s, id) ==
  LET t == s.timers[id]
      s1 == [s EXCEPT !.timers[id] = Ended(s, id, "fired", "")]
      s2 == IF t.inst = s.inst
            THEN [s1 EXCEPT !.nextNotificationTime = null] ELSE s1
  IN IF t.callback = "restore" THEN removeItem(s2) ELSE s2

\* mutant: neither callback removes the persisted record
timerCallback_NoCleanup(s, id) ==
  LET t == s.timers[id]
      s1 == [showNotification(s, id, t.message)
               EXCEPT !.timers[id] = Ended(s, id, "fired", "")]
  IN IF t.inst = s.inst
     THEN [s1 EXCEPT !.nextNotificationTime = null] ELSE s1

\* the callback given to setTimeout: by scheduleNotification (lines 109-112) or
\* by restoreScheduledNotifications (lines 175-179).  `this` is the instance
\* that armed the timer.
timerCallback(s, id) ==
  LET t == s.timers[id]
      s1 == [showNotification(s, id, t.message)
               EXCEPT !.timers[id] = Ended(s, id, "fired", "")]
      s2 == IF t.inst = s.inst
            THEN [s1 EXCEPT !.nextNotificationTime = null] ELSE s1
  IN IF t.callback = "restore" THEN removeItem(s2) ELSE s2

\* mutant: the comparison written dateTime >= now
restoreScheduledNotifications_AtNow(s) ==
  LET saved == s.storage
  IN IF saved = NoItem THEN s
     ELSE IF ~saved.parses THEN s
     ELSE LET data == saved.data
              dateTime == NewDate(data.dateTime)
          IN IF ~isNaN(getTime(dateTime)) /\ getTime(dateTime)[1] >= s.now
             THEN LET delay == Minus(getTime(dateTime), getTime(Date(s.now)))
                      s1 == [s EXCEPT !.nextNotificationTime = dateTime]
                      id == Len(s1.timers) + 1
                  IN [setTimeout(s1, "restore", data.message, delay, dateTime, data.req)
                        EXCEPT !.timer = id]
             ELSE removeItem(s)

\* JSON.parse(saved) inside try: a text that does not parse is caught and logged
restoreScheduledNotifications(s) ==
  LET saved == s.storage
  IN IF saved = NoItem THEN s
     ELSE IF ~saved.parses THEN JSONparse_Caught(s)
     ELSE LET data == saved.data
              dateTime == NewDate(data.dateTime)
          IN IF Greater(getTime(dateTime), getTime(Date(s.now)))
             THEN LET delay == Minus(getTime(dateTime), getTime(Date(s.now)))
                      s1 == [s EXCEPT !.nextNotificationTime = dateTime]
                      id == Len(s1.timers) + 1
                  IN [setTimeout(s1, "restore", data.message, delay, dateTime, data.req)
                        EXCEPT !.timer = id]
             ELSE removeItem(s)

\* onload: a new instance (timer and nextNotificationTime null) loads its
\* settings, then restore
onload(s) ==
  restoreScheduledNotifications(
    loadSettings([s EXCEPT !.loaded = TRUE, !.inst = @ + 1, !.timer = NoTimer,
                           !.nextNotificationTime = null]))

\* mutant: onunload leaves the timer armed
onunload_NoClear(s) == [s EXCEPT !.loaded = FALSE]

\* mutant: onunload also removes the persisted record
onunload_ErasesRecord(s) ==
  LET s1 == IF s.timer # NoTimer THEN clearTimeout(s, s.timer, "unload") ELSE s
  IN removeItem([s1 EXCEPT !.loaded = FALSE])

onunload(s) ==
  LET s1 == IF s.timer # NoTimer THEN clearTimeout(s, s.timer, "unload") ELSE s
  IN [s1 EXCEPT !.loaded = FALSE]

\* mutant: the persisted record is not removed
cancel_KeepsRecord(s) ==
  IF s.timer # NoTimer
  THEN LET s1 == clearTimeout(s, s.timer, "cancel")
           s2 == [s1 EXCEPT !.timer = NoTimer, !.nextNotificationTime = null]
       IN [s2 EXCEPT !.notice = "all cancelled"]
  ELSE s

\* mutant: the fields are reset but the timer is not cleared
cancel_NoClear(s) ==
  IF s.timer # NoTimer
  THEN LET s2 == [s EXCEPT !.timer = NoTimer, !.nextNotificationTime = null]
       IN [removeItem(s2) EXCEPT !.notice = "all cancelled"]
  ELSE s

\* the cancel button of the settings tab
cancel(s) ==
  IF s.timer # NoTimer
  THEN LET s1 == clearTimeout(s, s.timer, "cancel")
           s2 == [s1 EXCEPT !.timer = NoTimer, !.nextNotificationTime = null]
       IN [removeItem(s2) EXCEPT !.notice = "all cancelled"]
  ELSE s

getNextNotificationInfo(s) ==
  IF s.nextNotificationTime # null
  THEN <<"next", s.nextNotificationTime>>
  ELSE <<"none">>

\* ------------------------------------------------------------ actions
\* what the storage may hold when the application starts: nothing, a text that
\* is no JSON, or a record left by an earlier run, whose dateTime is now, one
\* tick ahead, at the end of the time range, or no time at all
InitialStorage ==
  {NoItem, Garbage}
  \cup {JSONstringify([dateTime |-> str, message |-> OldMessage,
                       scheduledAt |-> Digits(0), req |-> 0]) :
          str \in {Digits(0), Digits(1), Digits(MaxTime), <<>>}}

Dates == {Date(t) : t \in 0..MaxTime} \cup {InvalidDate}

\* the stored text is a record whose dateTime is the text of a valid time
HasStoredTime(item) ==
  item.kind = "text" /\ item.parses /\ NewDate(item.data.dateTime) # InvalidDate

\* a handler starts with no Notice raised and no exception
Enter(s) == [s EXCEPT !.notice = "", !.threw = FALSE]

\* what the plugin's data file may hold when the application starts: nothing,
\* or an object saved by an earlier version, with some of the fields
InitialData ==
  {null, [notificationTime |-> "09:30", notificationMessage |-> "b"]}

\* no instance loaded yet, with one of the given storage items and data files
Start(items, files) ==
  /\ now = 0
  /\ loaded = FALSE
  /\ inst = 0
  /\ timer = NoTimer
  /\ nextNotificationTime = null
  /\ timers = <<>>
  /\ storage \in items
  /\ shown = <<>>
  /\ notice = ""
  /\ threw = FALSE
  /\ settings = undefined
  /\ dataFile \in files
  /\ last = [op |-> "init", saved |-> NoItem, info |-> <<>>]

\* a fresh installation: no data file
Init == Start(InitialStorage, {null})

\* the application starts, or the plugin is enabled: a new instance is loaded
Load ==
  /\ ~loaded
  /\ inst < MaxLoads
  /\ Len(onload(Enter(State)).timers) <= MaxTimers
  /\ Becomes(onload(Enter(State)))
  /\ last' = [op |-> "load", saved |-> storage, info |-> <<>>]

\* the plugin is disabled
Unload ==
  /\ loaded
  /\ Becomes(onunload(Enter(State)))
  /\ last' = [op |-> "unload", saved |-> NoItem, info |-> <<>>]

\* the modal's submit or one of the quick commands calls scheduleNotification
ScheduleCall(dateTime, message) ==
  /\ loaded
  /\ Len(scheduleNotification(Enter(State), dateTime, message).timers) <= MaxTimers
  /\ Becomes(scheduleNotification(Enter(State), dateTime, message))
  /\ last' = [op |-> "schedule", saved |-> NoItem, info |-> <<>>]

Schedule == \E dateTime \in Dates, message \in Messages : ScheduleCall(dateTime, message)

\* the cancel button is clicked
Cancel ==
  /\ loaded
  /\ Becomes(cancel(Enter(State)))
  /\ last' = [op |-> "cancel", saved |-> NoItem, info |-> <<>>]

\* the settings tab is opened or redrawn: display() shows the text of
\* getNextNotificationInfo()
Display ==
  /\ loaded
  /\ Becomes(Enter(State))
  /\ last' = [op |-> "display", saved |-> NoItem,
              info |-> getNextNotificationInfo(Enter(State))]

\* an armed timer is due once one of the waits its delay can get has passed
Due(s, id) == \E w \in TimerDelays(s.timers[id].delay) : s.now >= s.timers[id].armedAt + w
Overdue(s, id) == \A w \in TimerDelays(s.timers[id].delay) : s.now >= s.timers[id].armedAt + w

\* the runtime runs the callback of a due timer
FireTimer(id) ==
  /\ id \in Armed(State)
  /\ Due(State, id)
  /\ Becomes(timerCallback(Enter(State), id))
  /\ last' = [op |-> "fire", saved |-> NoItem, info |-> <<>>]

Fire == \E id \in 1..Len(timers) : FireTimer(id)

\* the clock advances; the event loop runs a due timer before a tick passes
Tick ==
  /\ now < MaxTime
  /\ \A id \in Armed(State) : ~Overdue(State, id)
  /\ Becomes([State EXCEPT !.now = @ + 1])
  /\ UNCHANGED last

Next == Load \/ Unload \/ Schedule \/ Cancel \/ Fire \/ Tick

Spec == Init /\ [][Next]_vars

\* The event loop runs a due timer, and time passes.
FairSpec == Spec /\ WF_vars(Fire) /\ WF_vars(Tick)

\* The program with ordinary inputs only: every time given to it is valid and
\* no further ahead than the timer primitive can wait; the storage starts empty
\* or with a record holding such a time.
Ordinary(dateTime) ==
  dateTime # InvalidDate /\ dateTime.time[1] - now <= MaxDelayTicks

OrdinaryInit ==
  Init /\ (storage # NoItem =>
             HasStoredTime(storage) /\ Ordinary(NewDate(storage.data.dateTime)))

ScheduleOrdinary ==
  \E dateTime \in Dates, message \in Messages :
     Ordinary(dateTime) /\ ScheduleCall(dateTime, message)

OrdinaryNext == Load \/ Unload \/ ScheduleOrdinary \/ Cancel \/ Fire \/ Tick

OrdinarySpec == OrdinaryInit /\ [][OrdinaryNext]_vars

\* the 'enabled' toggle of the settings tab is switched
ToggleEnabled ==
  /\ loaded
  /\ \E value \in BOOLEAN : Becomes(onChange(Enter(State), value))
  /\ last' = [op |-> "toggle", saved |-> NoItem, info |-> <<>>]

\* The program started with an empty storage, with ordinary times, reminders
\* scheduled with one message, a data file that an earlier run may have left, and
\* the user switching the toggle between the scheduler's steps.
SettingsInit == Start({NoItem}, InitialData)

\* scheduleNotification is called with an ordinary time and the one message of
\* a quick command
ScheduleQuick ==
  \E dateTime \in Dates : Ordinary(dateTime) /\ ScheduleCall(dateTime, "a")

SettingsNext ==
  Load \/ Unload \/ ScheduleQuick \/ Cancel \/ Fire \/ Tick \/ ToggleEnabled

SettingsSpec == SettingsInit /\ [][SettingsNext]_vars

\* The program with the settings tab open: the tab is drawn between the
\* scheduler's steps.
TabNext == Next \/ Display

TabSpec == Init /\ [][TabNext]_vars

\* ------------------------------------------------------ the claims
\* the terms the claims are stated in
IsValid(d) == d.type = "Date" /\ d.time # NaN
After(d, t) == IsValid(d) /\ d.time[1] > t
AtOrBefore(d, t) == IsValid(d) /\ d.time[1] <= t
\* the scheduler is Armed: a trigger is armed in the runtime
LiveTriggers == Armed(State)
IsIdle == LiveTriggers = {}
\* a persisted record is present (a text that parses to a record)
HasRecord(item) == item.kind = "text" /\ item.parses
\* the persisted record, read back, holds this time and message
ReadsBack(item, d, m) ==
  /\ HasRecord(item)
  /\ NewDate(item.data.dateTime) = d
  /\ item.data.message = m
\* the handlers that clear a timer
Clearers == {"cancel", "schedule", "schedule, invalid time", "unload"}
\* no notification shown after the first `cut` ones is for reminder req
NeverShownAfter(req, cut) ==
  \A k \in 1..Len(shown) : k > cut => shown[k].req # req

\* C1: in every reachable state of a loaded instance (Idle or Armed), for every
\* fireAt strictly after now and every message, scheduleNotification raises no
\* exception and leaves exactly the trigger this.timer names armed for fireAt
\* and the message, fireAt as the pending time, and a persisted record that
\* reads back as fireAt and the message.
C1_ScheduleArmsAndPersists ==
  loaded =>
    \A d \in Dates, m \in Messages :
       After(d, now) =>
          LET r == scheduleNotification(Enter(State), d, m)
          IN /\ ~r.threw
             /\ r.nextNotificationTime = d
             /\ r.timer \in Armed(r)
             /\ r.timers[r.timer].dateTime = d
             /\ r.timers[r.timer].message = m
             /\ ReadsBack(r.storage, d, m)

\* a schedule call was accepted while a reminder was pending, and the record
\* holds what the armed trigger holds
C1_Witness ==
  /\ last.op = "schedule"
  /\ notice = "set"
  /\ timer \in LiveTriggers
  /\ \E i \in 1..Len(timers) : timers[i].state = "cleared" /\ timers[i].by = "schedule"
  /\ ReadsBack(storage, timers[timer].dateTime, timers[timer].message)

\* C2: in every reachable state of a loaded instance (Idle or Armed), for every
\* fireAt at or before now, scheduleNotification is rejected (the future-time
\* Notice, no exception) and the pending time, the timer handle, the timers (an
\* armed one stays armed as it was), the persisted record and the notifications
\* shown are as before.
C2_PastTimeRejected ==
  loaded =>
    \A d \in Dates, m \in Messages :
       AtOrBefore(d, now) =>
          LET r == scheduleNotification(Enter(State), d, m)
          IN /\ r.notice = "choose a future time"
             /\ ~r.threw
             /\ r.nextNotificationTime = nextNotificationTime
             /\ r.timer = timer
             /\ r.timers = timers
             /\ r.storage = storage
             /\ r.shown = shown

\* a call was rejected while a trigger was armed and a record persisted
C2_Witness ==
  /\ last.op = "schedule"
  /\ notice = "choose a future time"
  /\ timer \in LiveTriggers
  /\ HasRecord(storage)

\* C3: in every reachable state with a trigger armed (by schedule or by
\* restore), a schedule call for a time strictly after now leaves exactly one
\* trigger armed, with the call's time and message; and no notification is ever
\* shown for a reminder after such a call replaced its trigger.
C3_SecondScheduleReplaces ==
  /\ (loaded /\ ~IsIdle) =>
       \A d \in Dates, m \in Messages :
          After(d, now) =>
             LET r == scheduleNotification(Enter(State), d, m)
             IN /\ Armed(r) = {r.timer}
                /\ r.timers[r.timer].dateTime = d
                /\ r.timers[r.timer].message = m
  /\ \A i \in 1..Len(timers) :
        (timers[i].state = "cleared" /\ timers[i].by = "schedule") =>
           NeverShownAfter(timers[i].req, timers[i].cut)

\* a trigger was replaced by a second schedule call, and a notification was
\* shown after that
C3_Witness ==
  \E i \in 1..Len(timers) :
     /\ timers[i].state = "cleared" /\ timers[i].by = "schedule"
     /\ Len(shown) > timers[i].cut

\* C4: in every reachable state with a trigger armed, the cancel button leaves
\* no trigger armed, no pending time and no persisted record, and shows
\* nothing; and no notification is ever shown for a reminder after it was
\* cancelled.
C4_CancelArmed ==
  /\ (loaded /\ ~IsIdle) =>
       LET r == cancel(Enter(State))
       IN /\ Armed(r) = {}
          /\ r.timer = NoTimer
          /\ r.nextNotificationTime = null
          /\ r.storage = NoItem
          /\ r.shown = shown
  /\ \A i \in 1..Len(timers) :
        (timers[i].state = "cleared" /\ timers[i].by = "cancel") =>
           NeverShownAfter(timers[i].req, timers[i].cut)

\* a trigger was cancelled, and the clock has reached the end of the time range,
\* past every fire time
C4_Witness ==
  /\ now = MaxTime
  /\ \E i \in 1..Len(timers) : timers[i].state = "cleared" /\ timers[i].by = "cancel"

\* C5 (the claim as stated; the code violates it): the cancel button, pressed
\* while no trigger is armed, changes nothing: the pending time, the timers, the
\* persisted record and the notifications shown are as before, and no exception
\* is raised.
C5_CancelIdleChangesNothing ==
  [][(Cancel /\ IsIdle) =>
       /\ UNCHANGED <<nextNotificationTime, timers, storage, shown>>
       /\ ~threw']_vars

\* C6: onload with a persisted record whose dateTime is strictly after now arms
\* exactly one trigger, for that dateTime and the record's message, with that
\* dateTime as the pending time, and leaves the record; a trigger armed by
\* restore, when it fires, shows its message and leaves no trigger armed, no
\* pending time and no persisted record; and such a trigger does not stay armed
\* for ever: always, eventually no trigger armed by restore is left, and a
\* trigger that is no longer armed has fired or was cleared by cancel, by a
\* schedule call or by onunload.
C6_RestoreFuture ==
  /\ []((~loaded /\ HasRecord(storage) /\ After(NewDate(storage.data.dateTime), now)) =>
          LET r == onload(Enter(State))
          IN /\ Armed(r) = {r.timer}
             /\ r.nextNotificationTime = NewDate(storage.data.dateTime)
             /\ r.timers[r.timer].callback = "restore"
             /\ r.timers[r.timer].dateTime = NewDate(storage.data.dateTime)
             /\ r.timers[r.timer].message = storage.data.message
             /\ r.storage = storage
             /\ r.shown = shown)
  /\ [](\A id \in LiveTriggers :
          timers[id].callback = "restore" =>
             LET r == timerCallback(Enter(State), id)
             IN /\ r.shown = Append(shown, [timer |-> id, req |-> timers[id].req,
                                            message |-> timers[id].message])
                /\ Armed(r) = {}
                /\ r.nextNotificationTime = null
                /\ r.storage = NoItem)
  /\ []<>(\A id \in LiveTriggers : timers[id].callback # "restore")
  /\ [](\A id \in 1..Len(timers) :
          timers[id].state = "armed" \/ timers[id].state = "fired"
             \/ timers[id].by \in Clearers)

\* a trigger armed by restore has just fired
C6_Witness ==
  /\ last.op = "fire"
  /\ Len(shown) >= 1
  /\ timers[shown[Len(shown)].timer].callback = "restore"
  /\ timers[shown[Len(shown)].timer].state = "fired"
  /\ storage = NoItem
  /\ IsIdle

\* C7: onload with a persisted record whose dateTime is at or before now leaves
\* no trigger armed, no pending time, shows nothing, arms nothing, and removes
\* the persisted record.
C7_RestoreStale ==
  (~loaded /\ HasRecord(storage) /\ AtOrBefore(NewDate(storage.data.dateTime), now)) =>
     LET r == onload(Enter(State))
     IN /\ Armed(r) = {}
        /\ r.timer = NoTimer
        /\ r.nextNotificationTime = null
        /\ r.timers = timers
        /\ r.shown = shown
        /\ r.storage = NoItem

\* onload has just run on a stale record that a schedule call had written
C7_Witness ==
  /\ last.op = "load"
  /\ HasRecord(last.saved)
  /\ last.saved.data.req >= 1
  /\ AtOrBefore(NewDate(last.saved.data.dateTime), now)
  /\ storage = NoItem
  /\ IsIdle

\* C8: when onunload cleared a trigger that scheduleNotification(T, m) had armed
\* and onload runs at a time strictly before T, the new instance has exactly one
\* trigger armed, for T and m, and T as its pending time; no trigger is armed
\* while no instance is loaded; a trigger that fires shows the message it was
\* armed with; and a trigger restored from a schedule call's record does not
\* stay armed for ever: always, eventually none is left armed, and one that is
\* no longer armed has shown its notification or was cleared by cancel, by a
\* schedule call or by onunload.
C8_SurvivesReload ==
  /\ [](~loaded => IsIdle)
  /\ []((/\ ~loaded
         /\ Len(timers) >= 1
         /\ timers[Len(timers)].by = "unload"
         /\ timers[Len(timers)].callback = "schedule"
         /\ After(timers[Len(timers)].dateTime, now)) =>
          LET r == onload(Enter(State))
          IN /\ Armed(r) = {r.timer}
             /\ r.nextNotificationTime = timers[Len(timers)].dateTime
             /\ r.timers[r.timer].dateTime = timers[Len(timers)].dateTime
             /\ r.timers[r.timer].message = timers[Len(timers)].message
             /\ r.timers[r.timer].req = timers[Len(timers)].req)
  /\ [](\A id \in LiveTriggers :
          timerCallback(Enter(State), id).shown
             = Append(shown, [timer |-> id, req |-> timers[id].req,
                              message |-> timers[id].message]))
  /\ []<>(\A id \in LiveTriggers :
             ~(timers[id].callback = "restore" /\ timers[id].req >= 1))
  /\ [](\A id \in 1..Len(timers) :
          (timers[id].callback = "restore" /\ timers[id].req >= 1) =>
             \/ timers[id].state = "armed"
             \/ \E k \in 1..Len(shown) : shown[k].timer = id
             \/ timers[id].by \in Clearers)

\* a reminder armed by a schedule call was cleared by onunload, restored by the
\* next onload, and has fired in the new instance
C8_Witness ==
  /\ last.op = "fire"
  /\ Len(shown) >= 1
  /\ LET id == shown[Len(shown)].timer
     IN /\ timers[id].callback = "restore"
        /\ timers[id].req >= 1
        /\ timers[timers[id].req].by = "unload"

\* the state with an unparsable item replaced by no item
AsAbsent(s) == [s EXCEPT !.storage = IF @ = Garbage THEN NoItem ELSE @]

\* C9: while the stored item is a text that does not parse, every handler
\* does what it does with no item stored, up to the item itself: onload raises
\* no exception and leaves no trigger armed, no pending time, and the timers and
\* notifications as they were; scheduleNotification, cancel, onunload and the
\* timer callbacks give the same state in both cases.
C9_UnparsableAsAbsent ==
  storage = Garbage =>
    /\ ~loaded =>
         LET r == onload(Enter(State))
         IN /\ ~r.threw
            /\ r.timer = NoTimer
            /\ r.nextNotificationTime = null
            /\ r.timers = timers
            /\ r.shown = shown
            /\ AsAbsent(r) = onload(Enter(AsAbsent(State)))
    /\ loaded =>
         /\ \A d \in Dates, m \in Messages :
               AsAbsent(scheduleNotification(Enter(State), d, m))
                  = scheduleNotification(Enter(AsAbsent(State)), d, m)
         /\ AsAbsent(cancel(Enter(State))) = cancel(Enter(AsAbsent(State)))
         /\ AsAbsent(onunload(Enter(State))) = onunload(Enter(AsAbsent(State)))
    /\ \A id \in LiveTriggers :
         AsAbsent(timerCallback(Enter(State), id))
            = timerCallback(Enter(AsAbsent(State)), id)
    /\ (last.op = "load" /\ last.saved = Garbage) =>
         (~threw /\ IsIdle /\ timer = NoTimer /\ nextNotificationTime = null)

\* onload has just run on an unparsable item
C9_Witness ==
  /\ last.op = "load"
  /\ last.saved = Garbage
  /\ loaded
  /\ storage = Garbage

\* C10 (the claim as stated; the code violates it): between the operations of a
\* loaded instance, a persisted record is present exactly when a trigger is
\* armed.
C10_Lockstep ==
  loaded => (HasRecord(storage) <=> ~IsIdle)

\* a call that the future-time guard did not reject
Accepted(r) == r.notice # "choose a future time"

\* C11: in every reachable state at most one trigger is armed (over every
\* interleaving of schedule, restore, firing, cancel and unload/reload), and
\* in every reachable state of a loaded instance every schedule call that the
\* guard does not reject leaves exactly one trigger armed.
C11_AtMostOneLive ==
  /\ Cardinality(LiveTriggers) <= 1
  /\ loaded =>
       \A d \in Dates, m \in Messages :
          LET r == scheduleNotification(Enter(State), d, m)
          IN Accepted(r) => Cardinality(Armed(r)) = 1

\* a trigger that restore had armed was replaced by an accepted schedule call,
\* whose trigger is the one armed
C11_Witness ==
  /\ last.op = "schedule"
  /\ notice = "set"
  /\ \E i \in 1..Len(timers) :
        /\ timers[i].callback = "restore"
        /\ timers[i].state = "cleared"
        /\ timers[i].by = "schedule"
  /\ LiveTriggers = {timer}

\* C12 (the claim as stated; the code violates it): a schedule call with the
\* invalid Date is rejected like a past time: the future-time Notice is raised,
\* no exception, and the pending time, the timer handle, the timers, the
\* persisted record and the notifications shown are as before.
C12_InvalidTimeRejected ==
  [][\A m \in Messages :
        ScheduleCall(InvalidDate, m) =>
           /\ notice' = "choose a future time"
           /\ ~threw'
           /\ UNCHANGED <<nextNotificationTime, timer, timers, storage, shown>>]_vars

\* C13 (the claim as stated; the code violates it): after the cancel button's
\* handler returns, in whatever state it was pressed, no trigger is armed, the
\* pending time is null and the storage item is absent.
C13_CancelLeavesNothing ==
  [][Cancel => (IsIdle' /\ nextNotificationTime' = null /\ storage' = NoItem)]_vars

\* C13 (amended): after the cancel button's handler returns, in whatever state
\* it was pressed (Armed, Idle after a firing, Idle after restore of an absent,
\* stale or unparsable item), no trigger is armed, the pending time is null and
\* the storage holds no record; the storage item is absent unless restore left
\* an unparsable text there and no trigger was armed by this instance since,
\* in which case the text is still in storage.
C13_CancelLeavesNoRecord ==
  loaded =>
    LET r == cancel(Enter(State))
    IN /\ Armed(r) = {}
       /\ r.nextNotificationTime = null
       /\ ~HasRecord(r.storage)
       /\ r.storage # NoItem => (r.storage = Garbage /\ timer = NoTimer /\ r = Enter(State))

\* cancel was pressed in the Idle state after a schedule-armed trigger fired and
\* no trigger was ever cancelled: the stale handle made it remove the record
\* that firing had left
C13_Witness ==
  /\ last.op = "cancel"
  /\ notice = "all cancelled"
  /\ IsIdle
  /\ nextNotificationTime = null
  /\ storage = NoItem
  /\ \E i \in 1..Len(timers) :
        timers[i].callback = "schedule" /\ timers[i].state = "fired"
  /\ \A i \in 1..Len(timers) : timers[i].by # "cancel"

\* C14: the step in which the settings tab reads getNextNotificationInfo changes
\* nothing of the program (clock, instance, timer handle, pending time, timers,
\* storage, notifications shown); and in every reachable state of a loaded
\* instance getNextNotificationInfo returns the none-pending text exactly when
\* no trigger is armed, and otherwise the text for the time the one armed
\* trigger was armed for.
C14_InfoTracksArmed ==
  /\ [][Display => UNCHANGED <<now, loaded, inst, timer, nextNotificationTime,
                               timers, storage, shown>>]_vars
  /\ [](loaded =>
          /\ getNextNotificationInfo(State) = <<"none">> <=> IsIdle
          /\ \A id \in LiveTriggers :
                getNextNotificationInfo(State) = <<"next", timers[id].dateTime>>)

\* the settings tab was drawn while the trigger of a second schedule call was
\* armed, the first call's trigger having been replaced: the text shown is for
\* the second call's time
C14_Witness ==
  /\ last.op = "display"
  /\ timer \in LiveTriggers
  /\ timers[timer].callback = "schedule"
  /\ \E i \in 1..Len(timers) :
        /\ timers[i].state = "cleared" /\ timers[i].by = "schedule"
        /\ timers[i].callback = "schedule"
  /\ last.info = <<"next", timers[timer].dateTime>>

\* the timer whose notification was shown last
LastShown == timers[shown[Len(shown)].timer]

\* C15: in every reachable state, the callback of the armed trigger sets the
\* pending time to null, and leaves the storage with no item if restore armed
\* the trigger and as it was if scheduleNotification armed it; and in every
\* step that changes the storage item, either a record is written by a schedule
\* call that ended with the confirmation Notice, or the item is removed by
\* cancel, by the firing of a trigger that restore armed, or by onload finding a
\* record whose dateTime is not after now.
C15_WhoTouchesTheRecord ==
  /\ [](\A id \in LiveTriggers :
          LET r == timerCallback(Enter(State), id)
          IN /\ r.nextNotificationTime = null
             /\ timers[id].callback = "restore" => r.storage = NoItem
             /\ timers[id].callback = "schedule" => r.storage = storage)
  /\ [][storage' # storage =>
          \/ /\ HasRecord(storage')
             /\ last'.op = "schedule"
             /\ notice' = "set"
          \/ /\ storage' = NoItem
             /\ \/ last'.op = "cancel"
                \/ /\ last'.op = "fire"
                   /\ Len(shown') = Len(shown) + 1
                   /\ timers[shown'[Len(shown')].timer].callback = "restore"
                \/ /\ last'.op = "load"
                   /\ HasRecord(storage)
                   /\ ~After(NewDate(storage.data.dateTime), now)]_vars

\* a trigger armed by scheduleNotification has just fired: the pending time is
\* null and the record the call wrote is still in storage
C15_Witness ==
  /\ last.op = "fire"
  /\ Len(shown) >= 1
  /\ LastShown.callback = "schedule"
  /\ LastShown.state = "fired"
  /\ nextNotificationTime = null
  /\ HasRecord(storage)
  /\ storage.data.req = shown[Len(shown)].req

\* C16: a trigger armed by scheduleNotification, when it fires, shows the
\* message it was armed with and leaves no trigger armed; and under fairness of
\* the event loop and the clock such a trigger does not stay armed for ever:
\* always, eventually no trigger armed by scheduleNotification is left armed,
\* and one that is no longer armed has shown its notification or was cleared by
\* cancel, by a later schedule call or by onunload.
C16_ArmedLeadsToIdle ==
  /\ [](\A id \in LiveTriggers :
          timers[id].callback = "schedule" =>
             LET r == timerCallback(Enter(State), id)
             IN /\ Len(r.shown) = Len(shown) + 1
                /\ r.shown[Len(r.shown)].timer = id
                /\ r.shown[Len(r.shown)].message = timers[id].message
                /\ Armed(r) = {})
  /\ []<>(\A id \in LiveTriggers : timers[id].callback # "schedule")
  /\ [](\A id \in 1..Len(timers) :
          (timers[id].callback = "schedule" /\ timers[id].state # "armed") =>
             \/ /\ timers[id].state = "fired"
                /\ \E k \in 1..Len(shown) : shown[k].timer = id
             \/ /\ timers[id].state = "cleared"
                /\ timers[id].by \in Clearers)

\* a trigger armed by a schedule call for a valid time within the timer's range
\* has fired when its time came, and the scheduler is Idle
C16_Witness ==
  /\ last.op = "fire"
  /\ Len(shown) >= 1
  /\ LastShown.callback = "schedule"
  /\ LastShown.state = "fired"
  /\ HasRecord(storage)
  /\ storage.data.req = shown[Len(shown)].req
  /\ NewDate(storage.data.dateTime) = Date(now)
  /\ now >= 1
  /\ IsIdle

\* C17 (the claim as stated; the code violates it): over the whole history, no
\* two notifications shown are for the same schedule request.
C17_ShownAtMostOnce ==
  \A j, k \in 1..Len(shown) :
     (j # k /\ shown[j].req >= 1) => shown[j].req # shown[k].req

\* C18 (the claim as stated; the code violates it): in every reachable state of
\* a loaded instance, for every armed trigger whose time is a valid time, the
\* storage holds a record that reads back as that time and the trigger's
\* message, and onunload followed by onload leaves exactly one trigger armed,
\* for the same time and message.
C18_ReloadAlwaysRestores ==
  \A id \in LiveTriggers :
     (loaded /\ IsValid(timers[id].dateTime)) =>
        /\ ReadsBack(storage, timers[id].dateTime, timers[id].message)
        /\ LET r == onload(Enter(onunload(Enter(State))))
           IN /\ Armed(r) = {r.timer}
              /\ r.timers[r.timer].dateTime = timers[id].dateTime
              /\ r.timers[r.timer].message = timers[id].message

\* C18 (amended): in every reachable state, for every armed trigger whose time
\* is a valid time, the storage holds a record that reads back as that time and
\* the trigger's message; while that time is still ahead, onunload followed by
\* onload leaves exactly one trigger armed, for the same time, message and
\* request, with that time as the pending time; and once that time is reached
\* with the trigger not yet run, onunload followed by onload leaves no trigger
\* armed and no record, and shows nothing.
C18_RecordMirrorsArmed ==
  \A id \in LiveTriggers :
     IsValid(timers[id].dateTime) =>
        /\ ReadsBack(storage, timers[id].dateTime, timers[id].message)
        /\ (loaded /\ After(timers[id].dateTime, now)) =>
              LET r == onload(Enter(onunload(Enter(State))))
              IN /\ Armed(r) = {r.timer}
                 /\ r.timers[r.timer].dateTime = timers[id].dateTime
                 /\ r.timers[r.timer].message = timers[id].message
                 /\ r.timers[r.timer].req = timers[id].req
                 /\ r.nextNotificationTime = timers[id].dateTime
        /\ (loaded /\ AtOrBefore(timers[id].dateTime, now)) =>
              LET r == onload(Enter(onunload(Enter(State))))
              IN /\ Armed(r) = {}
                 /\ r.storage = NoItem
                 /\ r.shown = shown

\* a trigger that restore armed from a schedule call's record is armed after
\* the clock has advanced, its time still ahead, and the record reads back as
\* its time and message
C18_Witness ==
  /\ loaded
  /\ timer \in LiveTriggers
  /\ timers[timer].callback = "restore"
  /\ timers[timer].req >= 1
  /\ After(timers[timer].dateTime, now)
  /\ now >= 1
  /\ ReadsBack(storage, timers[timer].dateTime, timers[timer].message)

\* C19 (the claim as stated; the code violates it): no trigger armed for a valid
\* time fires, showing its notification, while now is still before that time.
C19_NeverEarly ==
  [][\A id \in 1..Len(timers) :
        FireTimer(id) => ~After(timers[id].dateTime, now)]_vars

\* the values the settings object can have: what onload makes of a data file,
\* with the toggle on or off
SettingsValues ==
  {[ObjectAssign(DEFAULT_SETTINGS, file) EXCEPT !.enabled = e] :
     file \in InitialData, e \in BOOLEAN}
\* the settings object with the data file it can come with: the file it was
\* loaded from, or the file it was saved to
SettingsWithFile ==
  {p \in SettingsValues \X (InitialData \cup SettingsValues) :
     p[2] = p[1] \/ (p[2] \in InitialData /\ ObjectAssign(DEFAULT_SETTINGS, p[2]) = p[1])}
\* a state with other settings and another data file, and the same scheduler
WithSettings(s, p) == [s EXCEPT !.settings = p[1], !.dataFile = p[2]]
\* the scheduler's part of a state: everything but the settings and the data file
Scheduler(s) == WithSettings(s, <<undefined, null>>)

====
